---- MODULE Spec2Model ----
(***************************************************************************)
(* Verification model of prezel: the repository watcher                    *)
(* (src/deployments/workers/github.rs) and the routing data plane          *)
(* (src/proxy.rs).                                                         *)
(*                                                                         *)
(* The watcher is modelled at the granularity of its await points: every   *)
(* call to the source host or to the store is one step of a worker.  The   *)
(* source host's answers are inputs of the steps.  Under Spec they are     *)
(* drawn freely from the result sets (the upstream may change and fail     *)
(* between any two calls); under SpecStatic they are read from a fixed     *)
(* upstream that never fails.                                              *)
(***************************************************************************)
EXTENDS Integers, Sequences, FiniteSets, TLC

\* ------------------------------------------------------------------ bounds
NumProjects == 2
MaxSha == 2
MaxPulls == 1

\* ------------------------------------------------------------- value sets
ProjectIds == 1..NumProjects
Shas == 1..MaxSha
NoSha == 0
NoBranch == "None"
DefaultBranchName == "main"
PRBranches == {"feat"}
ErrorKinds == {"Transient", "NotFound"}
Workers == {"w1", "w2"}
MainWorker == "w1"

\* Sequences over S of length at most n.
SeqUpTo(S, n) == UNION {[1..k -> S] : k \in 0..n}

\* anyhow::Result<T>: the record (ok, err, val).  Option<Commit> is the
\* pair (some, sha); a commit's timestamp is a function of the commit.
SomeCommit(s) == [some |-> TRUE, sha |-> s, timestamp |-> s]
NoCommit == [some |-> FALSE, sha |-> NoSha, timestamp |-> NoSha]

DefaultBranchResults == {[ok |-> TRUE, err |-> "", val |-> DefaultBranchName]}
                        \cup {[ok |-> FALSE, err |-> k, val |-> ""] : k \in ErrorKinds}
CommitResults == {[ok |-> TRUE, err |-> "", val |-> c] : c \in {NoCommit} \cup {SomeCommit(s) : s \in Shas}}
                 \cup {[ok |-> FALSE, err |-> k, val |-> NoCommit] : k \in ErrorKinds}
PullsResults == {[ok |-> TRUE, err |-> "", val |-> q] : q \in SeqUpTo(PRBranches, MaxPulls)}
                \cup {[ok |-> FALSE, err |-> k, val |-> <<>>] : k \in ErrorKinds}

VARIABLES
    projects,      \* store: the project rows, in get_projects order
    deployments,   \* store: the deployment rows, in insertion order
    upstream,      \* the source host's content (read under SpecStatic only)
    pc,            \* per worker: position in GithubWorker::work
    projs,         \* per worker: the Vec returned by get_projects
    pi,            \* per worker: index in projs of the project being visited
    pulls,         \* per worker: the pulls of the inner loop not yet visited
    dep,           \* per worker: the InsertDeployment being added
    site,          \* per worker: the call of add_deployment_to_db_if_missing
                   \* being executed, "default" (line 41) or "pull" (line 66)
    errs,          \* per worker (history): error kinds returned in this cycle
    fetched,       \* per worker (history): the last head commit fetched
    config,        \* data plane: the Conf of ProxyApp
    index,         \* data plane: the manager's hostname index
    rpc,           \* data plane: position of the request being served
    req,           \* data plane: the request (Host, Cookie, path, method)
    ctx,           \* data plane: the RequestCtx of the request
    resp,          \* data plane: the response written to the session
    keepalive,     \* data plane: the session's keepalive setting
    result,        \* data plane: what request_filter returned
    peer,          \* data plane: the HttpPeer the request was proxied to
    log,           \* data plane: the RequestLog records emitted for the request
    trace,         \* data plane (history): the calls request_filter made
    hpc,           \* port 80: position of the plain-HTTP request being served
    hreq,          \* port 80: the request (uri, Host header)
    hresp,         \* port 80: the Response HttpHandler::response returned
    epc,           \* env: position of the EnvVars computation
    env_a,         \* env: an EnvVars
    env_b,         \* env: a second EnvVars
    env_text,      \* env: an env bundle, as text
    env_out,       \* env: the EnvVars computed
    db_result,     \* api: the stored build result of a deployment row
    deployment,    \* api: the manager's Deployment object for the row, if any
    api_args,      \* api: the arguments of the last ApiDeployment::from
    api_report     \* api: the ApiDeployment it returned

wvars == <<projects, deployments, upstream, pc, projs, pi, pulls, dep, site, errs, fetched>>
pvars == <<config, index, rpc, req, ctx, resp, keepalive, result, peer, log, trace>>
hvars == <<hpc, hreq, hresp>>
evars == <<epc, env_a, env_b, env_text, env_out>>
avars == <<db_result, deployment, api_args, api_report>>
vars == <<projects, deployments, upstream, pc, projs, pi, pulls, dep, site, errs, fetched,
          config, index, rpc, req, ctx, resp, keepalive, result, peer, log, trace,
          hpc, hreq, hresp, epc, env_a, env_b, env_text, env_out,
          db_result, deployment, api_args, api_report>>

\* ------------------------------------------------------------- the store
NoDeployment == [env |-> 0, sha |-> NoSha, timestamp |-> NoSha, branch |-> NoBranch, project |-> 0]
NoFetch == [idx |-> 0, branch |-> NoBranch, sha |-> NoSha]

InitialProjects == [i \in ProjectIds |-> [id |-> i, repo_id |-> i, env |-> i]]

get_projects(ps) == ps

hash_exists(rows, sha) == \E i \in 1..Len(rows) : rows[i].sha = sha

insert_deployment(rows, d) ==
    Append(rows, [id |-> Len(rows) + 1, sha |-> d.sha, timestamp |-> d.timestamp,
                  branch |-> d.branch, project |-> d.project, env |-> d.env])

\* ----------------------------------------------------------- the upstream
\* Per repository: the head of the default branch (NoSha: no commit), the
\* open pull requests (their head branch names) and the heads of those
\* branches.
UpstreamRepos ==
    {r \in [main : Shas \cup {NoSha}, pulls : SeqUpTo(PRBranches, MaxPulls),
            head : [PRBranches -> Shas \cup {NoSha}]] :
        \A b \in PRBranches : (\A i \in 1..Len(r.pulls) : r.pulls[i] # b) => r.head[b] = NoSha}
Upstreams == [ProjectIds -> UpstreamRepos]
EmptyUpstream == [r \in ProjectIds |-> [main |-> NoSha, pulls |-> <<>>, head |-> [b \in PRBranches |-> NoSha]]]

CommitOf(s) == IF s = NoSha THEN NoCommit ELSE SomeCommit(s)
UpstreamDefaultBranch(repo) == [ok |-> TRUE, err |-> "", val |-> DefaultBranchName]
UpstreamHead(repo, branch) ==
    [ok |-> TRUE, err |-> "",
     val |-> CommitOf(IF branch = DefaultBranchName THEN upstream[repo].main ELSE upstream[repo].head[branch])]
UpstreamPulls(repo) == [ok |-> TRUE, err |-> "", val |-> upstream[repo].pulls]

\* --------------------------------------------------- the routing data plane
MaxCookies == 2
MaxPathLen == 1

API_PORT == 5045
NoId == 0

\* Conf: the box hostname, the hostname of the management API, the token
\* and the coordinator's URL.  api_hostname() is either the box hostname
\* itself or a name under it.
ConfHostname == "box"
Configs ==
    [hostname : {ConfHostname}, api_hostname : {"box", "api.box"},
     token : {"tok"}, coordinator : {"https://coord"}]

\* The manager's hostname index: per hostname no container, or a container
\* with its is_public() and its logging_deployment_id.
IndexedHosts == {"app.box", "api.box"}
Unbound == [bound |-> FALSE, public |-> FALSE, logging_deployment_id |-> NoId]
Containers ==
    {[bound |-> TRUE, public |-> FALSE, logging_deployment_id |-> 1],
     [bound |-> TRUE, public |-> TRUE, logging_deployment_id |-> 1],
     [bound |-> TRUE, public |-> TRUE, logging_deployment_id |-> NoId]}
Indexes ==
    {ix \in [IndexedHosts -> {Unbound} \cup Containers] :
        \/ ix["api.box"] = Unbound
        \/ /\ ix["api.box"] = [bound |-> TRUE, public |-> FALSE, logging_deployment_id |-> 1]
           /\ ix["app.box"] = Unbound}

get_container_by_hostname(ix, host) ==
    IF host \in DOMAIN ix THEN ix[host] ELSE Unbound

\* A header: absent, present with a value that is not text, or a text value.
AbsentHeader(v) == [present |-> FALSE, text |-> FALSE, val |-> v]
NonTextHeader(v) == [present |-> TRUE, text |-> FALSE, val |-> v]
TextHeader(v) == [present |-> TRUE, text |-> TRUE, val |-> v]

HostHeaders ==
    {AbsentHeader(""), NonTextHeader("")}
    \cup {TextHeader(h) : h \in {"box", "api.box", "app.box", "x.box"}}

\* The ';'-separated items of a Cookie header.  An item is name=value, or
\* has no '='; Cookie::parse rejects an item without '=' and an empty name.
CookieItems ==
    {[name |-> "box", eq |-> TRUE, value |-> v] : v \in {"tok", "bad"}}
    \cup {[name |-> "api.box", eq |-> TRUE, value |-> "tok"],
          [name |-> "box", eq |-> FALSE, value |-> ""]}
CookieHeaders ==
    {AbsentHeader(<<>>), NonTextHeader(<<>>)}
    \cup {TextHeader(q) : q \in SeqUpTo(CookieItems, MaxCookies)}

\* The path of the request's uri, as its segments.
Paths == SeqUpTo({"a", ".."}, MaxPathLen)
Requests == [host : HostHeaders, cookie : CookieHeaders, path : Paths, method : {"GET"}]
NoRequest == [host |-> AbsentHeader(""), cookie |-> AbsentHeader(<<>>), path |-> <<>>, method |-> "GET"]

\* Strings that are formatted and parsed are sequences of tokens.
RECURSIVE PathStr(_)
PathStr(segs) ==
    IF segs = <<>> THEN <<>> ELSE <<"/", Head(segs)>> \o PathStr(Tail(segs))

\* uri.path(): never empty.
uri_path(segs) == IF segs = <<>> THEN <<"/">> ELSE PathStr(segs)

\* Url::parse of a path removes its dot segments.
RECURSIVE RemoveDotSegments(_, _)
RemoveDotSegments(done, segs) ==
    IF segs = <<>> THEN done
    ELSE IF Head(segs) = ".."
         THEN RemoveDotSegments(IF done = <<>> THEN <<>> ELSE SubSeq(done, 1, Len(done) - 1), Tail(segs))
         ELSE RemoveDotSegments(Append(done, Head(segs)), Tail(segs))

\* format!("https://{host}{path}") as written, before any parsing.
SelfUrlStr(host, segs) == <<"https", ":", "/", "/", host>> \o uri_path(segs)

\* Url::parse(&format!("https://{host}{path}")).as_str()
CallbackUrl(host, segs) ==
    <<"https", ":", "/", "/", host>> \o uri_path(RemoveDotSegments(<<>>, segs))

\* append_pair serialises the value as application/x-www-form-urlencoded.
FormUrlEncodeToken(t) ==
    IF t = ":" THEN "%3A" ELSE IF t = "/" THEN "%2F" ELSE t
FormUrlEncode(str) == [i \in 1..Len(str) |-> FormUrlEncodeToken(str[i])]

\* SocketAddrV4 and Access.
SocketAddrV4(ip, port) == [ip |-> ip, port |-> port]
NoSocket == [ip |-> "", port |-> 0]
ContainerSocket == SocketAddrV4("172.17.0.2", 80)
AccessSocket(sock) == [ok |-> TRUE, kind |-> "Socket", socket |-> sock]
AccessLoading == [ok |-> TRUE, kind |-> "Loading", socket |-> NoSocket]
AccessError == [ok |-> FALSE, kind |-> "Error", socket |-> NoSocket]
NoAccess == [ok |-> FALSE, kind |-> "None", socket |-> NoSocket]
ContainerAccesses == {AccessSocket(ContainerSocket), AccessLoading, AccessError}

ApiListener_access_WrongPort == AccessSocket(SocketAddrV4("127.0.0.1", 80))

ApiListener_access == AccessSocket(SocketAddrV4("127.0.0.1", API_PORT))
ApiListener_is_public == TRUE

\* Peer: the listener and the deployment the request is logged under.
\* consulted: whether the manager's index was read to find it.
NoPeer(consulted) ==
    [some |-> FALSE, kind |-> "none", public |-> FALSE, deployment_id |-> NoId, consulted |-> consulted]
ApiPeer ==
    [some |-> TRUE, kind |-> "api", public |-> ApiListener_is_public, deployment_id |-> NoId, consulted |-> FALSE]

get_listener_inner_ApiFallback(cfg, ix, r) ==
    IF ~(r.host.present /\ r.host.text) THEN NoPeer(FALSE)
    ELSE IF r.host.val = cfg.api_hostname THEN ApiPeer
    ELSE LET container == get_container_by_hostname(ix, r.host.val)
         IN IF ~container.bound THEN ApiPeer
            ELSE [some |-> TRUE, kind |-> "container", public |-> container.public,
                  deployment_id |-> container.logging_deployment_id, consulted |-> TRUE]

get_listener_inner(cfg, ix, r) ==
    IF ~(r.host.present /\ r.host.text) THEN NoPeer(FALSE)
    ELSE IF r.host.val = cfg.api_hostname THEN ApiPeer
    ELSE LET container == get_container_by_hostname(ix, r.host.val)
         IN IF ~container.bound THEN NoPeer(TRUE)
            ELSE [some |-> TRUE, kind |-> "container", public |-> container.public,
                  deployment_id |-> container.logging_deployment_id, consulted |-> TRUE]

\* Cookie::split_parse(..).filter_map(|cookie| cookie.ok())
CookieParseOk(item) == item.eq /\ item.name # ""

is_authenticated_NameOnly(cfg, r) ==
    /\ r.cookie.present
    /\ r.cookie.text
    /\ \E i \in 1..Len(r.cookie.val) :
          /\ CookieParseOk(r.cookie.val[i])
          /\ r.cookie.val[i].name = cfg.hostname

is_authenticated(cfg, r) ==
    /\ r.cookie.present
    /\ r.cookie.text
    /\ \E i \in 1..Len(r.cookie.val) :
          /\ CookieParseOk(r.cookie.val[i])
          /\ r.cookie.val[i].name = cfg.hostname
          /\ r.cookie.val[i].value = cfg.token

\* Responses: status, headers (name, value) and body.
NoResponse == [written |-> FALSE, status |-> 0, headers |-> {}, body |-> ""]
Response(status, headers, body) ==
    [written |-> TRUE, status |-> status, headers |-> headers, body |-> body]

LoadingResponse_NoHeader == Response(200, {}, "loading.html")

LoadingResponse == Response(200, {<<"Prezel-Loading", <<"true">>>>}, "loading.html")

RedirectLocation(cfg, r) ==
    <<cfg.coordinator, "/api/instance/auth", "?", "callback", "=">>
    \o FormUrlEncode(CallbackUrl(r.host.val, r.path))

RedirectResponse(cfg, r) == Response(302, {<<"Location", RedirectLocation(cfg, r)>>}, "")

\* pingora errors: the type and the source they were created with.
NoError == [etype |-> "", esource |-> ""]
PingoraError(etype, esource) == [etype |-> etype, esource |-> esource]

\* ProxyApp does not override fail_to_proxy: pingora's default answers an
\* error with a status chosen by the error's source.
fail_to_proxy(e) ==
    IF e.esource = "Upstream" THEN 502
    ELSE IF e.esource = "Downstream" THEN 400
    ELSE 500

NoCtx == [deployment |-> NoId, socket |-> NoSocket]
NoTrace == [index |-> FALSE, auth |-> FALSE, access |-> NoAccess]
KeepaliveDefault == "default"
KeepaliveOff == "None"

\* request_filter: what it returns and what it leaves in the context and
\* on the session.  a is the answer of the container's access().
request_filter(cfg, ix, r, a) ==
    LET found == get_listener_inner(cfg, ix, r)
    IN IF ~found.some
       THEN [ret |-> "Err", error |-> PingoraError("No peer found", "Unset"),
             ctx |-> NoCtx, resp |-> NoResponse, keepalive |-> KeepaliveDefault,
             trace |-> [index |-> found.consulted, auth |-> FALSE, access |-> NoAccess]]
       ELSE LET c == [deployment |-> found.deployment_id, socket |-> NoSocket]
                authChecked == ~found.public
            IN IF found.public \/ is_authenticated(cfg, r)
               THEN LET access == IF found.kind = "api" THEN ApiListener_access ELSE a
                        tr == [index |-> found.consulted, auth |-> authChecked, access |-> access]
                    IN IF ~access.ok
                       THEN [ret |-> "Err", error |-> PingoraError("Failed to aquire socket", "Unset"),
                             ctx |-> c, resp |-> NoResponse, keepalive |-> KeepaliveDefault, trace |-> tr]
                       ELSE IF access.kind = "Socket"
                       THEN [ret |-> "Ok(false)", error |-> NoError,
                             ctx |-> [c EXCEPT !.socket = access.socket],
                             resp |-> NoResponse, keepalive |-> KeepaliveDefault, trace |-> tr]
                       ELSE [ret |-> "Ok(true)", error |-> NoError, ctx |-> c,
                             resp |-> LoadingResponse, keepalive |-> KeepaliveOff, trace |-> tr]
               ELSE [ret |-> "Ok(true)", error |-> NoError, ctx |-> c,
                     resp |-> RedirectResponse(cfg, r), keepalive |-> KeepaliveOff,
                     trace |-> [index |-> found.consulted, auth |-> authChecked, access |-> NoAccess]]

\* upstream_peer: the peer to proxy to, plain HTTP, or an error.
NoHttpPeer == [some |-> FALSE, socket |-> NoSocket, tls |-> FALSE, sni |-> ""]
upstream_peer_Tls(c) ==
    IF c.socket = NoSocket
    THEN [ok |-> FALSE, error |-> PingoraError("illegal upstream_peer call with empty socket", "Unset"),
          peer |-> NoHttpPeer]
    ELSE [ok |-> TRUE, error |-> NoError,
          peer |-> [some |-> TRUE, socket |-> c.socket, tls |-> TRUE, sni |-> ""]]

upstream_peer(c) ==
    IF c.socket = NoSocket
    THEN [ok |-> FALSE, error |-> PingoraError("illegal upstream_peer call with empty socket", "Unset"),
          peer |-> NoHttpPeer]
    ELSE [ok |-> TRUE, error |-> NoError,
          peer |-> [some |-> TRUE, socket |-> c.socket, tls |-> FALSE, sni |-> ""]]

\* The statuses an upstream answers with.
UpstreamStatuses == {200, 404, 500}

\* logging: the RequestLog records emitted for a finished request.
\* now(): the time the record is made.
now == "now"

LevelOf_ServerErrorsOnly(status) == IF status >= 500 /\ status <= 599 THEN "ERROR" ELSE "INFO"

LevelOf(status) == IF status >= 400 /\ status <= 599 THEN "ERROR" ELSE "INFO"
logging_NoDeploymentCheck(r, c, rs) ==
    IF ~(r.host.present /\ r.host.text) THEN <<>>
    ELSE IF ~rs.written THEN <<>>
    ELSE <<[level |-> LevelOf(rs.status), deployment |-> c.deployment, time |-> now,
            host |-> r.host.val, method |-> r.method, path |-> uri_path(r.path),
            status |-> rs.status]>>

logging(r, c, rs) ==
    IF ~(r.host.present /\ r.host.text) THEN <<>>
    ELSE IF c.deployment = NoId THEN <<>>
    ELSE IF ~rs.written THEN <<>>
    ELSE <<[level |-> LevelOf(rs.status), deployment |-> c.deployment, time |-> now,
            host |-> r.host.val, method |-> r.method, path |-> uri_path(r.path),
            status |-> rs.status]>>

ProxyIdle ==
    /\ rpc = "idle"
    /\ req = NoRequest
    /\ ctx = NoCtx
    /\ resp = NoResponse
    /\ keepalive = KeepaliveDefault
    /\ result = "none"
    /\ peer = NoHttpPeer
    /\ log = <<>>
    /\ trace = NoTrace

\* A request arrives on the TLS listener: new_ctx.
NewRequest(r) ==
    /\ rpc = "idle"
    /\ rpc' = "request_filter"
    /\ req' = r
    /\ ctx' = NoCtx
    /\ resp' = NoResponse
    /\ keepalive' = KeepaliveDefault
    /\ result' = "none"
    /\ peer' = NoHttpPeer
    /\ log' = <<>>
    /\ trace' = NoTrace
    /\ UNCHANGED <<config, index>>
    /\ UNCHANGED <<wvars, hvars, evars, avars>>

\* request_filter runs; an error it returns is answered by fail_to_proxy.
RequestFilter(a) ==
    /\ rpc = "request_filter"
    /\ LET out == request_filter(config, index, req, a)
       IN /\ result' = out.ret
          /\ ctx' = out.ctx
          /\ keepalive' = out.keepalive
          /\ trace' = out.trace
          /\ resp' = IF out.ret = "Err" THEN Response(fail_to_proxy(out.error), {}, "") ELSE out.resp
          /\ rpc' = IF out.ret = "Ok(false)" THEN "upstream_peer" ELSE "logging"
    /\ UNCHANGED <<config, index, req, peer, log>>
    /\ UNCHANGED <<wvars, hvars, evars, avars>>

\* request_filter returned false: the request is proxied to upstream_peer's
\* peer, and the upstream's response is written.
UpstreamPeer(status) ==
    /\ rpc = "upstream_peer"
    /\ LET out == upstream_peer(ctx)
       IN /\ peer' = out.peer
          /\ resp' = IF out.ok THEN Response(status, {}, "upstream") ELSE Response(fail_to_proxy(out.error), {}, "")
    /\ rpc' = "logging"
    /\ UNCHANGED <<config, index, req, ctx, keepalive, result, log, trace>>
    /\ UNCHANGED <<wvars, hvars, evars, avars>>

\* The request is over: logging runs.
Logging ==
    /\ rpc = "logging"
    /\ log' = logging(req, ctx, resp)
    /\ rpc' = "done"
    /\ UNCHANGED <<config, index, req, ctx, resp, keepalive, result, peer, trace>>
    /\ UNCHANGED <<wvars, hvars, evars, avars>>

\* The session is released; the next request starts from a fresh context.
EndRequest ==
    /\ rpc = "done"
    /\ rpc' = "idle"
    /\ req' = NoRequest
    /\ ctx' = NoCtx
    /\ resp' = NoResponse
    /\ keepalive' = KeepaliveDefault
    /\ result' = "none"
    /\ peer' = NoHttpPeer
    /\ log' = <<>>
    /\ trace' = NoTrace
    /\ UNCHANGED <<config, index>>
    /\ UNCHANGED <<wvars, hvars, evars, avars>>

\* ------------------------------------------------------ the port-80 handler
\* A plain-HTTP request: the host of the parsed request uri (none for a
\* request target in origin form), the Host header and the uri's path.
NoUriHost == ""
UriHosts == {NoUriHost, "app.box", "x.box"}
HttpRequests == [uri_host : UriHosts, host : HostHeaders, path : Paths]
NoHttpRequest == [uri_host |-> NoUriHost, host |-> AbsentHeader(""), path |-> <<>>]

\* HttpHandler::response: a redirect when the request uri has a host.
HttpHandler_response(r) ==
    IF r.uri_host # NoUriHost
    THEN Response(301, {<<"Content-Type", <<"text/html">>>>, <<"Content-Length", <<"47">>>>,
                        <<"Location", <<"https", ":", "/", "/", r.uri_host>> \o uri_path(r.path)>>},
                  "<html><body>301 Moved Permanently</body></html>")
    ELSE Response(404, {}, "")

HttpInit ==
    /\ hpc = "idle"
    /\ hreq = NoHttpRequest
    /\ hresp = NoResponse

\* A request arrives on port 80.
HttpRequest(r) ==
    /\ hpc = "idle"
    /\ hpc' = "response"
    /\ hreq' = r
    /\ hresp' = NoResponse
    /\ UNCHANGED <<wvars, pvars, evars, avars>>

\* HttpHandler::response answers it.
HttpResponse ==
    /\ hpc = "response"
    /\ hresp' = HttpHandler_response(hreq)
    /\ hpc' = "done"
    /\ hreq' = hreq
    /\ UNCHANGED <<wvars, pvars, evars, avars>>

\* ------------------------------------------------------------------ EnvVars
MaxStrLen == 1
MaxEnvSize == 2
MaxTextLen == 6

\* Strings are sequences of characters.  An EnvVars (a HashMap) is a set of
\* (key, value) pairs with distinct keys.
EnvChars == {"a", "="}
TextChars == {"a", "=", " ", "\n"}
EnvStrings == SeqUpTo(EnvChars, MaxStrLen)
Texts == SeqUpTo(TextChars, MaxTextLen)

Keys(m) == {e[1] : e \in m}
MapsOver(K, V, n) ==
    UNION {{{<<k, f[k]>> : k \in ks} : f \in [ks -> V]} :
              ks \in {x \in SUBSET K : Cardinality(x) <= n}}
Envs == MapsOver(EnvStrings, EnvStrings, MaxEnvSize)
MergeKeys == {<<"a">>, <<"b">>}
MergeValues == {<<"x">>, <<"y">>}
MergeEnvs == MapsOver(MergeKeys, MergeValues, Cardinality(MergeKeys))

\* The orders in which a HashMap may be iterated.
Orders(m) ==
    {q \in [1..Cardinality(m) -> m] : \A i, j \in 1..Cardinality(m) : q[i] = q[j] => i = j}

\* HashMap::insert, and collect() of (key, value) items into a HashMap.
Insert(m, k, v) == {e \in m : e[1] # k} \cup {<<k, v>>}
RECURSIVE Collect(_, _)
Collect(m, items) ==
    IF items = <<>> THEN m
    ELSE Collect(Insert(m, Head(items)[1], Head(items)[2]), Tail(items))

\* From<EnvVars> for Vec<String>: one "{key}={value}" per entry, in the
\* map's iteration order.
EnvVars_to_vec(order) == [i \in 1..Len(order) |-> order[i][1] \o <<"=">> \o order[i][2]]

\* The lines joined by newlines.
RECURSIVE JoinLines(_)
JoinLines(lines) ==
    IF lines = <<>> THEN <<>>
    ELSE IF Len(lines) = 1 THEN lines[1]
    ELSE lines[1] \o <<"\n">> \o JoinLines(Tail(lines))

\* str::split(sep): the parts between the separators; "" gives one part.
RECURSIVE Split(_, _, _)
Split(str, sep, part) ==
    IF str = <<>> THEN <<part>>
    ELSE IF Head(str) = sep THEN <<part>> \o Split(Tail(str), sep, <<>>)
    ELSE Split(Tail(str), sep, Append(part, Head(str)))

\* str::trim
RECURSIVE TrimStart(_)
TrimStart(str) ==
    IF str # <<>> /\ Head(str) \in {" ", "\n"} THEN TrimStart(Tail(str)) ELSE str
RECURSIVE TrimEnd(_)
TrimEnd(str) ==
    IF str # <<>> /\ str[Len(str)] \in {" ", "\n"} THEN TrimEnd(SubSeq(str, 1, Len(str) - 1)) ELSE str
Trim(str) == TrimEnd(TrimStart(str))

parse_env_SplitOnce(line) ==
    LET tuple == Split(line, "=", <<>>)
    IN IF Len(tuple) >= 2
       THEN <<<<tuple[1], SubSeq(line, Len(tuple[1]) + 2, Len(line))>>>>
       ELSE <<>>

\* parse_env: Some((name, value)) when splitting at '=' gives two parts.
\* The Option is a sequence of at most one item.
parse_env(line) ==
    LET tuple == Split(line, "=", <<>>)
    IN IF Len(tuple) = 2 THEN <<<<tuple[1], tuple[2]>>>> ELSE <<>>

\* The items of the lines that are not blank and that parse_env accepts.
RECURSIVE FilterMapLines(_)
FilterMapLines(lines) ==
    IF lines = <<>> THEN <<>>
    ELSE LET line == Trim(Head(lines))
         IN (IF line # <<>> THEN parse_env(line) ELSE <<>>) \o FilterMapLines(Tail(lines))

\* From<&str> for EnvVars
EnvVars_from_str(text) == Collect({}, FilterMapLines(Split(text, "\n", <<>>)))

EnvVars_add_SelfOverrides(oa, ob) == Collect({}, ob \o oa)

\* Add for EnvVars: self's entries chained with other's, collected.
EnvVars_add(oa, ob) == Collect({}, oa \o ob)

EnvInit ==
    /\ epc = "idle"
    /\ env_a = {}
    /\ env_b = {}
    /\ env_text = <<>>
    /\ env_out = {}

\* An EnvVars is formatted, its entries in some order, and joined.
EnvFormat(order) ==
    /\ epc = "env"
    /\ env_text' = JoinLines(EnvVars_to_vec(order))
    /\ epc' = "formatted"
    /\ UNCHANGED <<env_a, env_b, env_out>>
    /\ UNCHANGED <<wvars, pvars, hvars, avars>>

\* A text is parsed.
EnvParse ==
    /\ epc \in {"text", "formatted"}
    /\ env_out' = EnvVars_from_str(env_text)
    /\ epc' = IF epc = "text" THEN "parsed" ELSE "roundtrip"
    /\ UNCHANGED <<env_a, env_b, env_text>>
    /\ UNCHANGED <<wvars, pvars, hvars, avars>>

\* Two EnvVars are added, each iterated in some order.
EnvAdd(oa, ob) ==
    /\ epc = "pair"
    /\ env_out' = EnvVars_add(oa, ob)
    /\ epc' = "added"
    /\ UNCHANGED <<env_a, env_b, env_text>>
    /\ UNCHANGED <<wvars, pvars, hvars, avars>>

\* ---------------------------------------------------------- management API
\* One deployment row and the Deployment object the manager may hold for it.
BuildResults == {"None", "Built", "Failed"}
Status == {"Built", "StandBy", "Queued", "Building", "Ready", "Failed"}
ContainerStatuses == {"Queued", "Building", "Built", "StandBy", "Starting", "Ready", "Failed"}

NoString == [some |-> FALSE, val |-> <<>>]
SomeString(v) == [some |-> TRUE, val |-> v]

UrlId == "u1"
ProjectName == "proj"
BoxDomain == "box"
ContainerId == "c1"

NoDeploymentObject == [loaded |-> FALSE, status |-> "Queued", woken |-> FALSE]
DeploymentObject(status, woken) == [loaded |-> TRUE, status |-> status, woken |-> woken]

\* The status a container handle reports; a re-warming container counts as
\* Building.
to_status(s) == IF s = "Starting" THEN "Building" ELSE s

\* The runtime id of the container, once it was created.
get_container_id(d) ==
    IF d.status \in {"StandBy", "Starting", "Ready"} THEN SomeString(<<ContainerId>>) ELSE NoString

get_app_hostname(box_domain, project_name) == <<UrlId, "-", project_name, ".", box_domain>>
get_db_hostname(box_domain, project_name) == <<UrlId, "-db-", project_name, ".", box_domain>>
get_prod_hostname(box_domain, project_name) == <<project_name, ".", box_domain>>

\* PlusHttps::plus_https
plus_https(hostname) ==
    IF hostname.some THEN SomeString(<<"https://">> \o hostname.val) ELSE NoString

StatusOfResult_FailedAsQueued(res) ==
    CASE res = "Built" -> "Built"
      [] OTHER -> "Queued"

\* ApiDeployment::from, no Deployment object: the status of the build result.
StatusOfResult(res) ==
    CASE res = "Failed" -> "Failed"
      [] res = "Built" -> "Built"
      [] OTHER -> "Queued"

ProdUrl_Always(is_prod, box_domain, project_name) ==
    plus_https(SomeString(get_prod_hostname(box_domain, project_name)))

\* ApiDeployment::from, Deployment object present: the production url.
ProdUrl(is_prod, box_domain, project_name) ==
    plus_https(IF is_prod THEN SomeString(get_prod_hostname(box_domain, project_name)) ELSE NoString)

NoReport == [kind |-> "none"]
Panicked == [kind |-> "panic"]
NoArgs == [is_prod |-> FALSE, branch |-> NoBranch, github_ok |-> TRUE, result |-> "None", loaded |-> FALSE]

\* ApiDeployment::from.  The default branch is asked of the source host when
\* the row has no branch, and the answer is unwrapped.
ApiDeployment_from(d, res, branch, is_prod, box_domain, github_ok) ==
    LET container ==
            IF d.loaded
            THEN [status |-> to_status(d.status),
                  url |-> plus_https(SomeString(get_app_hostname(box_domain, ProjectName))),
                  prod_url |-> ProdUrl(is_prod, box_domain, ProjectName),
                  db_url |-> plus_https(SomeString(get_db_hostname(box_domain, ProjectName))),
                  app_container |-> get_container_id(d)]
            ELSE [status |-> StatusOfResult(res), url |-> NoString, prod_url |-> NoString,
                  db_url |-> NoString, app_container |-> NoString]
    IN IF branch = NoBranch /\ ~github_ok
       THEN Panicked
       ELSE [kind |-> "report",
             gitref |-> IF branch = NoBranch THEN DefaultBranchName ELSE branch,
             url |-> container.url,
             target_url |-> container.prod_url,
             db_url |-> container.db_url,
             status |-> container.status,
             app_container |-> container.app_container]

ApiInit ==
    /\ db_result = "None"
    /\ deployment = NoDeploymentObject
    /\ api_args = NoArgs
    /\ api_report = NoReport

\* Reconciliation: the manager constructs the Deployment object of the row.
Manager_load ==
    /\ ~deployment.loaded
    /\ deployment' = DeploymentObject(StatusOfResult(db_result), FALSE)
    /\ UNCHANGED <<db_result, api_args, api_report>>
    /\ UNCHANGED <<wvars, pvars, hvars, evars>>

\* The control plane restarts: the object is gone, the row stays.
Manager_drop ==
    /\ deployment.loaded
    /\ deployment' = NoDeploymentObject
    /\ UNCHANGED <<db_result, api_args, api_report>>
    /\ UNCHANGED <<wvars, pvars, hvars, evars>>

\* ensure_built: starts the build of a queued deployment, else does nothing.
ensure_built ==
    /\ deployment.loaded
    /\ deployment' = IF deployment.status = "Queued"
                     THEN [deployment EXCEPT !.status = "Building"]
                     ELSE deployment
    /\ UNCHANGED <<db_result, api_args, api_report>>
    /\ UNCHANGED <<wvars, pvars, hvars, evars>>

\* The build terminates and the row gets its result.
BuildFinished(ok) ==
    /\ deployment.loaded
    /\ deployment.status = "Building"
    /\ db_result = "None"
    /\ db_result' = IF ok THEN "Built" ELSE "Failed"
    /\ deployment' = [deployment EXCEPT !.status = IF ok THEN "Built" ELSE "Failed"]
    /\ UNCHANGED <<api_args, api_report>>
    /\ UNCHANGED <<wvars, pvars, hvars, evars>>

\* ensure_running: implies ensure_built; starts the container of a built
\* deployment; does nothing for a failed one.
ensure_running ==
    /\ deployment.loaded
    /\ deployment' =
          [deployment EXCEPT
             !.woken = TRUE,
             !.status = CASE deployment.status = "Queued" -> "Building"
                          [] deployment.status \in {"Built", "StandBy"} -> "Starting"
                          [] OTHER -> deployment.status]
    /\ UNCHANGED <<db_result, api_args, api_report>>
    /\ UNCHANGED <<wvars, pvars, hvars, evars>>

\* The started container answers.
ContainerReady ==
    /\ deployment.loaded
    /\ deployment.status = "Starting"
    /\ deployment' = [deployment EXCEPT !.status = "Ready"]
    /\ UNCHANGED <<db_result, api_args, api_report>>
    /\ UNCHANGED <<wvars, pvars, hvars, evars>>

\* stop, also by idle eviction: Ready to StandBy.
stop ==
    /\ deployment.loaded
    /\ deployment.status = "Ready"
    /\ deployment' = [deployment EXCEPT !.status = "StandBy"]
    /\ UNCHANGED <<db_result, api_args, api_report>>
    /\ UNCHANGED <<wvars, pvars, hvars, evars>>

\* An API handler reports the deployment.
ApiGet(branch, is_prod, github_ok) ==
    /\ api_args' = [is_prod |-> is_prod, branch |-> branch, github_ok |-> github_ok,
                    result |-> db_result, loaded |-> deployment.loaded]
    /\ api_report' = ApiDeployment_from(deployment, db_result, branch, is_prod, BoxDomain, github_ok)
    /\ UNCHANGED <<db_result, deployment>>
    /\ UNCHANGED <<wvars, pvars, hvars, evars>>

\* ------------------------------------------------------------ the watcher
TypeOK ==
    /\ projects = InitialProjects
    /\ upstream \in Upstreams
    /\ pc \in [Workers -> {"idle", "default", "pulls", "pull", "hash_exists", "insert", "done", "panicked"}]
    /\ pi \in [Workers -> 0..NumProjects]
    /\ errs \in [Workers -> SUBSET ErrorKinds]

WorkerInit ==
    /\ pc = [w \in Workers |-> "idle"]
    /\ projs = [w \in Workers |-> <<>>]
    /\ pi = [w \in Workers |-> 0]
    /\ pulls = [w \in Workers |-> <<>>]
    /\ dep = [w \in Workers |-> NoDeployment]
    /\ site = [w \in Workers |-> "default"]
    /\ errs = [w \in Workers |-> {}]
    /\ fetched = [w \in Workers |-> NoFetch]

\* The data plane serves no request.
ProxyInit ==
    /\ config = [hostname |-> ConfHostname, api_hostname |-> "api.box", token |-> "tok",
                 coordinator |-> "https://coord"]
    /\ index = [h \in IndexedHosts |-> Unbound]
    /\ ProxyIdle
    /\ HttpInit
    /\ EnvInit
    /\ ApiInit

Init ==
    /\ projects = InitialProjects
    /\ deployments = <<>>
    /\ upstream = EmptyUpstream
    /\ WorkerInit
    /\ ProxyInit

\* The outer loop moves to its next project, or the cycle ends.
NextProject(w) ==
    IF pi[w] < Len(projs[w])
    THEN /\ pc' = [pc EXCEPT ![w] = "default"]
         /\ pi' = [pi EXCEPT ![w] = pi[w] + 1]
    ELSE /\ pc' = [pc EXCEPT ![w] = "done"]
         /\ pi' = pi

\* The inner loop goes on with the pulls q, or is over.
NextPull(w, q) ==
    /\ pulls' = [pulls EXCEPT ![w] = q]
    /\ IF q # <<>>
       THEN /\ pc' = [pc EXCEPT ![w] = "pull"]
            /\ pi' = pi
       ELSE NextProject(w)

\* A tick: work() starts and reads the projects.
Work_GetProjects(w) ==
    /\ pc[w] \in {"idle", "done"}
    /\ projs' = [projs EXCEPT ![w] = get_projects(projects)]
    /\ errs' = [errs EXCEPT ![w] = {}]
    /\ fetched' = [fetched EXCEPT ![w] = NoFetch]
    /\ pulls' = [pulls EXCEPT ![w] = <<>>]
    /\ dep' = [dep EXCEPT ![w] = NoDeployment]
    /\ site' = [site EXCEPT ![w] = "default"]
    /\ IF Len(get_projects(projects)) > 0
       THEN /\ pc' = [pc EXCEPT ![w] = "default"]
            /\ pi' = [pi EXCEPT ![w] = 1]
       ELSE /\ pc' = [pc EXCEPT ![w] = "done"]
            /\ pi' = [pi EXCEPT ![w] = 0]
    /\ UNCHANGED <<projects, deployments, upstream>>
    /\ UNCHANGED <<pvars, hvars, evars, avars>>

DefaultDeployment_CurrentEnv(p, commit) ==
    [env |-> projects[p.id].env, sha |-> commit.sha, timestamp |-> commit.timestamp,
     branch |-> NoBranch, project |-> p.id]

\* The InsertDeployment built for the default branch's head commit.
DefaultDeployment(p, commit) ==
    [env |-> p.env, sha |-> commit.sha, timestamp |-> commit.timestamp,
     branch |-> NoBranch, project |-> p.id]

PullDeployment_NoBranch(p, commit, branch) ==
    [env |-> p.env, sha |-> commit.sha, timestamp |-> commit.timestamp,
     branch |-> NoBranch, project |-> p.id]

\* The InsertDeployment built for the head commit of a pull's branch.
PullDeployment(p, commit, branch) ==
    [env |-> p.env, sha |-> commit.sha, timestamp |-> commit.timestamp,
     branch |-> branch, project |-> p.id]

get_latest_commit_for_default_branch(rb, rc) ==
    IF ~rb.ok THEN [ok |-> FALSE, err |-> rb.err, val |-> NoCommit] ELSE rc

\* The default branch of the current project: rb answers
\* get_default_branch, rc answers get_latest_commit.
Work_DefaultBranch(w, rb, rc) ==
    /\ pc[w] = "default"
    /\ LET commit == get_latest_commit_for_default_branch(rb, rc)
           p == projs[w][pi[w]]
       IN IF ~commit.ok
          THEN \* break: leaves the loop over the projects
               /\ errs' = [errs EXCEPT ![w] = errs[w] \cup {commit.err}]
               /\ pc' = [pc EXCEPT ![w] = "done"]
               /\ UNCHANGED <<dep, site, fetched>>
          ELSE /\ errs' = errs
               /\ fetched' = [fetched EXCEPT ![w] = [idx |-> pi[w], branch |-> NoBranch, sha |-> commit.val.sha]]
               /\ IF commit.val.some
                  THEN /\ dep' = [dep EXCEPT ![w] = DefaultDeployment(p, commit.val)]
                       /\ site' = [site EXCEPT ![w] = "default"]
                       /\ pc' = [pc EXCEPT ![w] = "hash_exists"]
                  ELSE /\ UNCHANGED <<dep, site>>
                       /\ pc' = [pc EXCEPT ![w] = "pulls"]
    /\ UNCHANGED <<projects, deployments, upstream, projs, pi, pulls>>
    /\ UNCHANGED <<pvars, hvars, evars, avars>>

add_deployment_to_db_if_missing_Unguarded(rows, d) == "insert"

\* add_deployment_to_db_if_missing, first store call: where the worker goes
\* after db.hash_exists answered.
add_deployment_to_db_if_missing(rows, d) ==
    IF ~hash_exists(rows, d.sha) THEN "insert" ELSE "skip"

\* After the add: the default branch is followed by get_open_pulls, a pull
\* by the rest of the inner loop.
AfterAdd(w) ==
    IF site[w] = "default"
    THEN /\ pc' = [pc EXCEPT ![w] = "pulls"]
         /\ UNCHANGED <<pi, pulls>>
    ELSE NextPull(w, pulls[w])

Add_HashExists(w) ==
    /\ pc[w] = "hash_exists"
    /\ IF add_deployment_to_db_if_missing(deployments, dep[w]) = "insert"
       THEN /\ pc' = [pc EXCEPT ![w] = "insert"]
            /\ UNCHANGED <<pi, pulls>>
       ELSE AfterAdd(w)
    /\ UNCHANGED <<projects, deployments, upstream, projs, dep, site, errs, fetched>>
    /\ UNCHANGED <<pvars, hvars, evars, avars>>

Add_InsertDeployment(w) ==
    /\ pc[w] = "insert"
    /\ deployments' = insert_deployment(deployments, dep[w])
    /\ AfterAdd(w)
    /\ UNCHANGED <<projects, upstream, projs, dep, site, errs, fetched>>
    /\ UNCHANGED <<pvars, hvars, evars, avars>>

\* get_open_pulls(..).await.unwrap(): an error panics the worker's task.
Work_GetOpenPulls(w, r) ==
    /\ pc[w] = "pulls"
    /\ IF ~r.ok
       THEN /\ errs' = [errs EXCEPT ![w] = errs[w] \cup {r.err}]
            /\ pc' = [pc EXCEPT ![w] = "panicked"]
            /\ UNCHANGED <<pi, pulls>>
       ELSE /\ errs' = errs
            /\ NextPull(w, r.val)
    /\ UNCHANGED <<projects, deployments, upstream, projs, dep, site, fetched>>
    /\ UNCHANGED <<pvars, hvars, evars, avars>>

\* One pull of the inner loop: r answers get_latest_commit for its branch.
Work_PullCommit(w, r) ==
    /\ pc[w] = "pull"
    /\ pulls[w] # <<>>
    /\ LET branch == Head(pulls[w])
           p == projs[w][pi[w]]
       IN IF ~r.ok
          THEN \* break: leaves the loop over the pulls only
               /\ errs' = [errs EXCEPT ![w] = errs[w] \cup {r.err}]
               /\ pulls' = [pulls EXCEPT ![w] = <<>>]
               /\ NextProject(w)
               /\ UNCHANGED <<dep, site, fetched>>
          ELSE /\ errs' = errs
               /\ fetched' = [fetched EXCEPT ![w] = [idx |-> pi[w], branch |-> branch, sha |-> r.val.sha]]
               /\ IF r.val.some
                  THEN /\ dep' = [dep EXCEPT ![w] = PullDeployment(p, r.val, branch)]
                       /\ site' = [site EXCEPT ![w] = "pull"]
                       /\ pc' = [pc EXCEPT ![w] = "hash_exists"]
                       /\ pulls' = [pulls EXCEPT ![w] = Tail(pulls[w])]
                       /\ pi' = pi
                  ELSE /\ UNCHANGED <<dep, site>>
                       /\ NextPull(w, Tail(pulls[w]))
    /\ UNCHANGED <<projects, deployments, upstream, projs>>
    /\ UNCHANGED <<pvars, hvars, evars, avars>>

\* One worker, any upstream: every answer of the source host is free.
Next ==
    \/ Work_GetProjects(MainWorker)
    \/ \E rb \in DefaultBranchResults, rc \in CommitResults : Work_DefaultBranch(MainWorker, rb, rc)
    \/ Add_HashExists(MainWorker)
    \/ Add_InsertDeployment(MainWorker)
    \/ \E r \in PullsResults : Work_GetOpenPulls(MainWorker, r)
    \/ \E r \in CommitResults : Work_PullCommit(MainWorker, r)

Spec == Init /\ [][Next]_vars

\* One worker, a static upstream that never fails: the answers are read
\* from upstream, which no action changes.
InitStatic ==
    /\ projects = InitialProjects
    /\ deployments = <<>>
    /\ upstream \in Upstreams
    /\ WorkerInit
    /\ ProxyInit

CurrentRepo(w) == projs[w][pi[w]].repo_id

NextStatic ==
    \/ Work_GetProjects(MainWorker)
    \/ /\ pc[MainWorker] = "default"
       /\ Work_DefaultBranch(MainWorker, UpstreamDefaultBranch(CurrentRepo(MainWorker)),
                             UpstreamHead(CurrentRepo(MainWorker), DefaultBranchName))
    \/ Add_HashExists(MainWorker)
    \/ Add_InsertDeployment(MainWorker)
    \/ /\ pc[MainWorker] = "pulls"
       /\ Work_GetOpenPulls(MainWorker, UpstreamPulls(CurrentRepo(MainWorker)))
    \/ /\ pc[MainWorker] = "pull"
       /\ pulls[MainWorker] # <<>>
       /\ Work_PullCommit(MainWorker, UpstreamHead(CurrentRepo(MainWorker), Head(pulls[MainWorker])))

SpecStatic == InitStatic /\ [][NextStatic]_vars

\* The data plane alone: any configuration and index, any request, any
\* answer of the container's access() and of the upstream.
InitProxy ==
    /\ projects = InitialProjects
    /\ deployments = <<>>
    /\ upstream = EmptyUpstream
    /\ WorkerInit
    /\ config \in Configs
    /\ index \in Indexes
    /\ ProxyIdle
    /\ HttpInit
    /\ EnvInit
    /\ ApiInit

NextProxy ==
    \/ \E r \in Requests : NewRequest(r)
    \/ \E a \in ContainerAccesses : RequestFilter(a)
    \/ \E status \in UpstreamStatuses : UpstreamPeer(status)
    \/ Logging
    \/ EndRequest

SpecProxy == InitProxy /\ [][NextProxy]_vars

\* The port-80 handler alone: any plain-HTTP request.
WorldInit ==
    /\ projects = InitialProjects
    /\ deployments = <<>>
    /\ upstream = EmptyUpstream
    /\ WorkerInit
    /\ ProxyInit

NextHttp ==
    \/ \E r \in HttpRequests : HttpRequest(r)
    \/ HttpResponse

SpecHttp == WorldInit /\ [][NextHttp]_vars

\* An EnvVars is formatted and parsed back.
InitEnvRoundTrip ==
    /\ projects = InitialProjects
    /\ deployments = <<>>
    /\ upstream = EmptyUpstream
    /\ WorkerInit
    /\ config = [hostname |-> ConfHostname, api_hostname |-> "api.box", token |-> "tok",
                 coordinator |-> "https://coord"]
    /\ index = [h \in IndexedHosts |-> Unbound]
    /\ ProxyIdle
    /\ HttpInit
    /\ ApiInit
    /\ epc = "env"
    /\ env_a \in Envs
    /\ env_b = {}
    /\ env_text = <<>>
    /\ env_out = {}

NextEnvRoundTrip ==
    \/ \E order \in Orders(env_a) : EnvFormat(order)
    \/ EnvParse

SpecEnvRoundTrip == InitEnvRoundTrip /\ [][NextEnvRoundTrip]_vars

\* A text is parsed.
InitEnvParse ==
    /\ projects = InitialProjects
    /\ deployments = <<>>
    /\ upstream = EmptyUpstream
    /\ WorkerInit
    /\ config = [hostname |-> ConfHostname, api_hostname |-> "api.box", token |-> "tok",
                 coordinator |-> "https://coord"]
    /\ index = [h \in IndexedHosts |-> Unbound]
    /\ ProxyIdle
    /\ HttpInit
    /\ ApiInit
    /\ epc = "text"
    /\ env_a = {}
    /\ env_b = {}
    /\ env_text \in Texts
    /\ env_out = {}

NextEnvParse == EnvParse

SpecEnvParse == InitEnvParse /\ [][NextEnvParse]_vars

\* Two EnvVars are added.
InitEnvMerge ==
    /\ projects = InitialProjects
    /\ deployments = <<>>
    /\ upstream = EmptyUpstream
    /\ WorkerInit
    /\ config = [hostname |-> ConfHostname, api_hostname |-> "api.box", token |-> "tok",
                 coordinator |-> "https://coord"]
    /\ index = [h \in IndexedHosts |-> Unbound]
    /\ ProxyIdle
    /\ HttpInit
    /\ ApiInit
    /\ epc = "pair"
    /\ env_a \in MergeEnvs
    /\ env_b \in MergeEnvs
    /\ env_text = <<>>
    /\ env_out = {}

NextEnvMerge == \E oa \in Orders(env_a), ob \in Orders(env_b) : EnvAdd(oa, ob)

SpecEnvMerge == InitEnvMerge /\ [][NextEnvMerge]_vars

\* The management API over one deployment row and its lifecycle.
NextApi ==
    \/ Manager_load
    \/ Manager_drop
    \/ ensure_built
    \/ \E ok \in BOOLEAN : BuildFinished(ok)
    \/ ensure_running
    \/ ContainerReady
    \/ stop
    \/ \E branch \in {NoBranch} \cup PRBranches, is_prod \in BOOLEAN, github_ok \in BOOLEAN :
          ApiGet(branch, is_prod, github_ok)

SpecApi == WorldInit /\ [][NextApi]_vars

\* Two executions of the cycle at once, over a static upstream: each step
\* is one await point of one worker.
WorkStatic(w) ==
    \/ Work_GetProjects(w)
    \/ /\ pc[w] = "default"
       /\ Work_DefaultBranch(w, UpstreamDefaultBranch(CurrentRepo(w)),
                             UpstreamHead(CurrentRepo(w), DefaultBranchName))
    \/ Add_HashExists(w)
    \/ Add_InsertDeployment(w)
    \/ /\ pc[w] = "pulls"
       /\ Work_GetOpenPulls(w, UpstreamPulls(CurrentRepo(w)))
    \/ /\ pc[w] = "pull"
       /\ pulls[w] # <<>>
       /\ Work_PullCommit(w, UpstreamHead(CurrentRepo(w), Head(pulls[w])))

NextConcurrent == \E w \in Workers : WorkStatic(w)

SpecConcurrent == InitStatic /\ [][NextConcurrent]_vars

\* The user API changes the env bundle of one project while the watcher
\* runs.
ChangedEnv == 0
update_project(i) ==
    /\ \A j \in 1..Len(projects) : projects[j].env # ChangedEnv
    /\ projects' = [projects EXCEPT ![i].env = ChangedEnv]
    /\ UNCHANGED <<deployments, upstream, pc, projs, pi, pulls, dep, site, errs, fetched>>
    /\ UNCHANGED <<pvars, hvars, evars, avars>>

\* The answers about commits the frame is explored with: no head, either of
\* two heads (so that a head can move), or an error.
FrameCommitResults == {r \in CommitResults : r.val.sha \in {NoSha, 1, 2}}

NextFrame ==
    \/ Work_GetProjects(MainWorker)
    \/ \E rb \in DefaultBranchResults, rc \in FrameCommitResults : Work_DefaultBranch(MainWorker, rb, rc)
    \/ Add_HashExists(MainWorker)
    \/ Add_InsertDeployment(MainWorker)
    \/ \E r \in PullsResults : Work_GetOpenPulls(MainWorker, r)
    \/ \E r \in FrameCommitResults : Work_PullCommit(MainWorker, r)
    \/ \E i \in 1..Len(projects) : update_project(i)

SpecFrame == Init /\ [][NextFrame]_vars

\* ============================================================ the claims
RowsOf(p) == {i \in 1..Len(deployments) : deployments[i].project = p}
ShaInStore(s) == \E i \in 1..Len(deployments) : deployments[i].sha = s

\* The distinct head shas the upstream shows for a project's repository.
ObservedShas(repo) ==
    ({upstream[repo].main}
     \cup {upstream[repo].head[upstream[repo].pulls[i]] : i \in 1..Len(upstream[repo].pulls)})
    \ {NoSha}

\* C1 (as stated): after any number of complete watcher cycles over a static
\* upstream, every project has as many deployment rows as distinct head
\* shas observed for it, also when two projects observe the same sha.
C1_RowsEqualObservedShas ==
    pc[MainWorker] = "done" =>
        \A i \in 1..Len(projects) :
            Cardinality(RowsOf(projects[i].id)) = Cardinality(ObservedShas(projects[i].repo_id))

\* C2: in every state reachable by watcher cycles, the store holds at most
\* one deployment row for any pair (project, sha).
C2_AtMostOneRowPerProjectSha ==
    \A i, j \in 1..Len(deployments) :
        (deployments[i].project = deployments[j].project /\ deployments[i].sha = deployments[j].sha)
            => i = j

\* C2 witness: a sha the store already holds for the project was observed
\* again, the add is over, and the row was not inserted a second time.
C2_Witness ==
    /\ Len(deployments) = 2
    /\ pc[MainWorker] = "pulls"
    /\ dep[MainWorker].sha = deployments[1].sha
    /\ dep[MainWorker].project = deployments[1].project
    /\ fetched[MainWorker].sha = deployments[1].sha

\* C3 (as stated): once a source-host call of a cycle has returned a
\* Transient error the cycle is over: the worker visits no further project
\* and makes no further call until the next tick.
C3_TransientAbortsCycle ==
    \A w \in Workers : "Transient" \in errs[w] => pc[w] \in {"done", "panicked"}

\* C4 (as stated): a cycle in which the only source-host errors were
\* NotFound skips the failing project only, and so ends having visited
\* every project.
C4_NotFoundSkipsOneProject ==
    \A w \in Workers :
        (pc[w] \in {"done", "panicked"} /\ errs[w] = {"NotFound"}) => pi[w] = Len(projs[w])

\* The row the store must hold for the head commit last fetched by w.
ExpectedRow(w) ==
    [id |-> Len(deployments) + 1, sha |-> fetched[w].sha, timestamp |-> fetched[w].sha,
     branch |-> fetched[w].branch, project |-> projects[fetched[w].idx].id,
     env |-> projects[fetched[w].idx].env]

\* C5: a fetched head commit whose sha is not in the store is inserted, as a
\* row with that sha, the visited project and branch None for the default
\* branch or the pull's head branch name for a pull; the pulls of a project
\* are fetched after its default branch was fetched and added; and a cycle
\* without source-host error visits every project.
C5_WatcherDiscovery ==
    /\ [][(pc[MainWorker] = "hash_exists" /\ ~ShaInStore(fetched[MainWorker].sha))
             => pc'[MainWorker] = "insert"]_vars
    /\ [][pc[MainWorker] = "insert"
             => deployments' = Append(deployments, ExpectedRow(MainWorker))]_vars
    /\ [](pc[MainWorker] = "pulls" =>
             /\ fetched[MainWorker].idx = pi[MainWorker]
             /\ fetched[MainWorker].branch = NoBranch
             /\ (fetched[MainWorker].sha # NoSha => ShaInStore(fetched[MainWorker].sha)))
    /\ [](pc[MainWorker] = "pull" => fetched[MainWorker].idx = pi[MainWorker])
    /\ []((pc[MainWorker] = "done" /\ errs[MainWorker] = {}) =>
             /\ pi[MainWorker] = Len(projs[MainWorker])
             /\ pulls[MainWorker] = <<>>)

\* C5 witness: an error-free cycle is over in which a project got a row for
\* its default branch and then a row for a pull's branch.
C5_Witness ==
    /\ pc[MainWorker] = "done"
    /\ errs[MainWorker] = {}
    /\ \E i, j \in 1..Len(deployments) :
          /\ i < j
          /\ deployments[i].project = deployments[j].project
          /\ deployments[i].branch = NoBranch
          /\ deployments[j].branch \in PRBranches
          /\ fetched[MainWorker].sha = deployments[j].sha

\* ------------------------------------------------------- data plane claims
\* request_filter has run for the request.
Filtered == rpc \in {"upstream_peer", "logging", "done"}
HostIsText == req.host.present /\ req.host.text
HostIsApi == HostIsText /\ req.host.val = config.api_hostname
HostIsBound == HostIsText /\ req.host.val \in DOMAIN index /\ index[req.host.val].bound
\* The Host resolves to a container of the manager's index that is not public.
HostIsPrivate == HostIsBound /\ ~HostIsApi /\ ~index[req.host.val].public
\* The Cookie header holds name=value with the configured name and token.
HasAuthCookie ==
    /\ req.cookie.present
    /\ req.cookie.text
    /\ \E i \in 1..Len(req.cookie.val) :
          req.cookie.val[i] = [name |-> config.hostname, eq |-> TRUE, value |-> config.token]
LetThrough == trace.access # NoAccess
NotProxied == rpc # "upstream_peer" /\ peer = NoHttpPeer /\ ctx.socket = NoSocket
LocationOf(rs) == {h[2] : h \in {x \in rs.headers : x[1] = "Location"}}

FormUrlDecodeToken(t) ==
    IF t = "%3A" THEN ":" ELSE IF t = "%2F" THEN "/" ELSE t
FormUrlDecode(str) == [i \in 1..Len(str) |-> FormUrlDecodeToken(str[i])]

\* C6 (as stated): a request to a non-public listener is let through iff it
\* carries the auth cookie; otherwise it is answered 302 with Location
\* <coordinator>/api/instance/auth?callback=https://<host><path>, and is not
\* proxied.
C6_AuthGateLiteralLocation ==
    (Filtered /\ HostIsPrivate) =>
        /\ LetThrough <=> HasAuthCookie
        /\ ~HasAuthCookie =>
              /\ resp.status = 302
              /\ LocationOf(resp) =
                    {<<config.coordinator, "/api/instance/auth", "?", "callback", "=">>
                     \o SelfUrlStr(req.host.val, req.path)}
              /\ result = "Ok(true)"
              /\ NotProxied

\* C6 (amended): a request to a non-public listener is let through iff it
\* carries the auth cookie; otherwise it is answered 302 with Location
\* <coordinator>/api/instance/auth?callback=<v>, where v is form-urlencoded
\* (no ':' or '/' is left in it) and decodes to the URL https://<host><path>
\* with the path's dot segments removed, and the request is not proxied.
C6_AuthGate ==
    (Filtered /\ HostIsPrivate) =>
        /\ LetThrough <=> HasAuthCookie
        /\ ~HasAuthCookie =>
              /\ resp.status = 302
              /\ \E loc \in LocationOf(resp) :
                    /\ LocationOf(resp) = {loc}
                    /\ Len(loc) > 5
                    /\ SubSeq(loc, 1, 5) = <<config.coordinator, "/api/instance/auth", "?", "callback", "=">>
                    /\ \A i \in 6..Len(loc) : loc[i] \notin {":", "/"}
                    /\ FormUrlDecode(SubSeq(loc, 6, Len(loc)))
                          = <<"https", ":", "/", "/", req.host.val>>
                            \o uri_path(RemoveDotSegments(<<>>, req.path))
              /\ result = "Ok(true)"
              /\ NotProxied

\* C6 witness: a request to a non-public listener whose cookie has the
\* right name and a wrong value was answered with the redirect.
C6_Witness ==
    /\ rpc = "done"
    /\ HostIsPrivate
    /\ req.cookie = TextHeader(<<[name |-> config.hostname, eq |-> TRUE, value |-> "bad"]>>)
    /\ req.path # <<>>
    /\ resp.status = 302

\* C7: when access() answered Loading, the response is 200 with the header
\* Prezel-Loading: true and the static loading body, keepalive is disabled,
\* request_filter reports the response as sent and nothing is proxied.
C7_LoadingInterstitial ==
    (Filtered /\ trace.access.kind = "Loading") =>
        /\ resp.written
        /\ resp.status = 200
        /\ <<"Prezel-Loading", <<"true">>>> \in resp.headers
        /\ resp.body = "loading.html"
        /\ keepalive = KeepaliveOff
        /\ result = "Ok(true)"
        /\ NotProxied

\* C7 witness: a request whose access() answered Loading is over.
C7_Witness ==
    /\ rpc = "done"
    /\ trace.access.kind = "Loading"
    /\ resp.status = 200

\* C8 (as stated): when access() answered with an error, the response has
\* status 502.
C8_AccessError502 ==
    (rpc \in {"logging", "done"} /\ trace.access.kind = "Error") => resp.status = 502

\* C9: a request whose Host is the management API's hostname is proxied to
\* 127.0.0.1:5045, whatever its cookie, without reading the manager's index
\* and without the auth check.
C9_ApiHostToLoopback ==
    (Filtered /\ HostIsApi) =>
        /\ result = "Ok(false)"
        /\ ctx.socket = [ip |-> "127.0.0.1", port |-> 5045]
        /\ ~trace.index
        /\ ~trace.auth
        /\ rpc \in {"logging", "done"} =>
              peer = [some |-> TRUE, socket |-> [ip |-> "127.0.0.1", port |-> 5045], tls |-> FALSE, sni |-> ""]

\* C9 witness: a request to the API's hostname without a cookie was
\* proxied, while the index binds that hostname to a non-public container.
C9_Witness ==
    /\ rpc = "done"
    /\ HostIsApi
    /\ ~req.cookie.present
    /\ HostIsBound
    /\ peer.some

\* C10: a request without a text Host, or whose Host is neither the API's
\* hostname nor bound in the index, ends in an error before the auth check
\* and before any access(): it gets no redirect, no loading page and is not
\* proxied, whatever its cookie.
C10_HostResolutionFirst ==
    (Filtered /\ ~HostIsApi /\ ~HostIsBound) =>
        /\ result = "Err"
        /\ ~trace.auth
        /\ trace.access = NoAccess
        /\ resp.status \notin {200, 302}
        /\ LocationOf(resp) = {}
        /\ <<"Prezel-Loading", <<"true">>>> \notin resp.headers
        /\ NotProxied

\* C10 witness: a request to an unbound hostname that carries the auth
\* cookie is over.
C10_Witness ==
    /\ rpc = "done"
    /\ HostIsText
    /\ ~HostIsApi
    /\ ~HostIsBound
    /\ HasAuthCookie

\* The container the Host resolves to is logged under a deployment.
HostHasDeployment ==
    HostIsBound /\ ~HostIsApi /\ index[req.host.val].logging_deployment_id # NoId

\* The one record logging must emit for the request.
ExpectedLogRecord(level) ==
    [level |-> level, deployment |-> index[req.host.val].logging_deployment_id, time |-> "now",
     host |-> req.host.val, method |-> req.method,
     path |-> IF req.path = <<>> THEN <<"/">> ELSE PathStr(req.path), status |-> resp.status]

\* C11 (as stated): when a request for which a response was written is
\* over, exactly one request-log record was emitted for it, also when it
\* was routed to the management API.
C11_OneLogRecordPerResponse ==
    (rpc = "done" /\ resp.written /\ (HostIsApi \/ HostIsBound)) => Len(log) = 1

\* C11 (amended): when a request for which a response was written is over,
\* exactly one request-log record (host, method, path, status, deployment
\* id, timestamp) was emitted if its Host resolved to a container that has
\* a logging deployment id, and no record otherwise (management API,
\* container without deployment id, unresolved Host).
C11_OneLogRecordPerDeploymentResponse ==
    (rpc = "done" /\ resp.written) =>
        IF HostHasDeployment
        THEN \E level \in {"INFO", "ERROR"} : log = <<ExpectedLogRecord(level)>>
        ELSE log = <<>>

\* C11 witness: a proxied request to a container with a deployment id is
\* over and its record was emitted.
C11_Witness ==
    /\ rpc = "done"
    /\ HostHasDeployment
    /\ peer.some
    /\ Len(log) = 1

\* C17: every emitted request-log record has the status of the written
\* response, level ERROR when that status is 4xx or 5xx and level INFO when
\* it is 1xx, 2xx or 3xx.
C17_LogLevel ==
    \A i \in 1..Len(log) :
        /\ log[i].status = resp.status
        /\ log[i].status \in 400..599 => log[i].level = "ERROR"
        /\ log[i].status \in 100..399 => log[i].level = "INFO"

\* C17 witness: the record of a 404 answered by the upstream was emitted.
C17_Witness ==
    /\ rpc = "done"
    /\ Len(log) = 1
    /\ log[1].status = 404
    /\ peer.some

\* C20: request_filter returns false iff access() answered Socket(addr),
\* with addr stored in the context; upstream_peer then finds the socket and
\* proxies to exactly addr over plain HTTP, so its error is never returned.
C20_ProxyOnlyOnSocket ==
    Filtered =>
        /\ result = "Ok(false)" <=> trace.access.kind = "Socket"
        /\ result = "Ok(false)" => (ctx.socket = trace.access.socket /\ ctx.socket # NoSocket)
        /\ result # "Ok(false)" => NotProxied
        /\ (result = "Ok(false)" /\ rpc \in {"logging", "done"}) =>
              peer = [some |-> TRUE, socket |-> trace.access.socket, tls |-> FALSE, sni |-> ""]

\* C20 witness: a request whose container answered Socket was proxied to
\* the container's socket.
C20_Witness ==
    /\ rpc = "logging"
    /\ HostIsBound
    /\ ~HostIsApi
    /\ trace.access.kind = "Socket"
    /\ peer.some
    /\ peer.socket # [ip |-> "127.0.0.1", port |-> 5045]

\* The host a plain-HTTP request names: the host of its target when the
\* target has one, else the text of its Host header.
HttpHostParsable == hreq.uri_host # NoUriHost \/ (hreq.host.present /\ hreq.host.text)
HttpHost == IF hreq.uri_host # NoUriHost THEN hreq.uri_host ELSE hreq.host.val

\* C12: every plain-HTTP request whose Host is parsable is answered 301
\* with Location https://<host><path>, every other request 404, and none
\* is proxied.
C12_RedirectOrNotFound ==
    hpc = "done" =>
        /\ hresp.written
        /\ ~peer.some
        /\ IF HttpHostParsable
           THEN /\ hresp.status = 301
                /\ LocationOf(hresp) = {<<"https", ":", "/", "/", HttpHost>> \o uri_path(hreq.path)}
           ELSE hresp.status = 404

\* C13: formatting an env map as KEY=VALUE lines joined by newlines, in any
\* order of its entries, and parsing the result gives back the map.
C13_RoundTrip == epc = "roundtrip" => env_out = env_a

Lookup(m, k) == {e[2] : e \in {x \in m : x[1] = k}}

\* C14: the keys of a + b are the keys of a and of b, and each key has b's
\* value when b has the key and a's value otherwise.
C14_MergeOverride ==
    epc = "added" =>
        /\ Keys(env_out) = Keys(env_a) \cup Keys(env_b)
        /\ \A k \in Keys(env_out) :
              Lookup(env_out, k) = IF k \in Keys(env_b) THEN Lookup(env_b, k) ELSE Lookup(env_a, k)

\* C14 witness: two maps that disagree on a shared key, and each with a
\* key of its own, were added.
C14_Witness ==
    /\ epc = "added"
    /\ env_a = {<<<<"a">>, <<"x">>>>, <<<<"b">>, <<"x">>>>}
    /\ env_b = {<<<<"a">>, <<"y">>>>}
    /\ env_out = {<<<<"a">>, <<"y">>>>, <<<<"b">>, <<"x">>>>}

\* The lines of the parsed text, by position: a line starts at 1 or after a
\* newline and ends before the next newline or at the end of the text.
LineStarts == {i \in 1..(Len(env_text) + 1) : i = 1 \/ env_text[i - 1] = "\n"}
LineStop(s) ==
    CHOOSE j \in s..(Len(env_text) + 1) :
        /\ j = Len(env_text) + 1 \/ env_text[j] = "\n"
        /\ \A i \in s..(j - 1) : env_text[i] # "\n"
EqualsIn(s) == {i \in s..(LineStop(s) - 1) : env_text[i] = "="}
Accepted == {s \in LineStarts : Cardinality(EqualsIn(s)) = 1}
EqualsOf(s) == CHOOSE i \in EqualsIn(s) : TRUE
KeyOf(s) ==
    LET q == EqualsOf(s)
        first == CHOOSE i \in s..q : env_text[i] # " " /\ \A j \in s..(i - 1) : env_text[j] = " "
    IN SubSeq(env_text, first, q - 1)
ValueOf(s) ==
    LET q == EqualsOf(s)
        e == LineStop(s) - 1
        last == CHOOSE i \in q..e : env_text[i] # " " /\ \A j \in (i + 1)..e : env_text[j] = " "
    IN SubSeq(env_text, q + 1, last)

\* C15: the parsed map has one entry for each line with exactly one '=',
\* key and value being the text before and after the '=' without the
\* line's outer whitespace; blank lines and lines with no or with several
\* '=' give nothing; of the accepted lines with one key the last is kept.
C15_ParseBundle ==
    epc = "parsed" =>
        env_out = {<<KeyOf(s), ValueOf(s)>> :
                     s \in {x \in Accepted : \A y \in Accepted : KeyOf(y) = KeyOf(x) => y <= x}}

\* C15 witness: a text of two accepted lines with the same key around a
\* line without '=' was parsed.
C15_Witness ==
    /\ epc = "parsed"
    /\ env_text = <<"=", "\n", "a", "\n", "=", "a">>
    /\ env_out = {<<<<>>, <<"a">>>>}

\* Every head sha the upstream shows, for any project, is in the store.
AllObservedInStore ==
    \A i \in 1..Len(projects) : \A s \in ObservedShas(projects[i].repo_id) : ShaInStore(s)

\* C18: over a static upstream, no step of a watcher cycle taken when all
\* observable head shas are in the store changes the store or raises an
\* error, and a completed cycle leaves all of them in the store, so that a
\* second cycle leaves the store as the first left it.
C18_IdempotentRescan ==
    /\ [][AllObservedInStore => (deployments' = deployments /\ errs'[MainWorker] = {})]_vars
    /\ [](pc[MainWorker] = "done" => (AllObservedInStore /\ errs[MainWorker] = {}))

\* C18 witness: a later cycle is comparing the first project's default
\* head, already stored by an earlier cycle together with a second row.
C18_Witness ==
    /\ pc[MainWorker] = "hash_exists"
    /\ pi[MainWorker] = 1
    /\ site[MainWorker] = "default"
    /\ AllObservedInStore
    /\ ShaInStore(dep[MainWorker].sha)
    /\ Len(deployments) >= 2

C19_ReportOfUnloaded ==
    api_report.kind = "report" =>
        IF ~api_args.loaded
        THEN /\ api_report.status = CASE api_args.result = "None" -> "Queued"
                                      [] api_args.result = "Failed" -> "Failed"
                                      [] api_args.result = "Built" -> "Built"
             /\ ~api_report.url.some
             /\ ~api_report.db_url.some
             /\ ~api_report.target_url.some
             /\ ~api_report.app_container.some
        ELSE /\ api_report.target_url.some <=> api_args.is_prod
             /\ api_report.target_url.some =>
                   api_report.target_url.val = <<"https://", ProjectName, ".", BoxDomain>>

\* C19 witness: a row whose build failed was reported after the manager
\* lost its object.
C19_Witness ==
    /\ api_report.kind = "report"
    /\ ~api_args.loaded
    /\ api_args.result = "Failed"
    /\ api_report.status = "Failed"
    /\ ~deployment.loaded

\* C21: a request to a non-public deployment without the auth cookie never
\* reaches access(), records no socket and is not proxied; it is answered
\* with the 302 redirect, and request_filter gives the same outcome
\* whatever access() would have answered, that is, whatever state the
\* deployment is in.
C21_UnauthenticatedNoSideEffect ==
    (Filtered /\ HostIsPrivate /\ ~HasAuthCookie) =>
        /\ trace.access = NoAccess
        /\ NotProxied
        /\ resp.status = 302
        /\ \A a \in ContainerAccesses :
              LET other == request_filter(config, index, req, a)
              IN /\ other.resp = resp
                 /\ other.ret = result
                 /\ other.ctx = ctx
                 /\ other.keepalive = keepalive
                 /\ other.trace.access = NoAccess

\* C21 witness: a request without any cookie to a non-public deployment
\* is over and was answered with the redirect.
C21_Witness ==
    /\ rpc = "done"
    /\ HostIsPrivate
    /\ ~req.cookie.present
    /\ resp.status = 302
    /\ trace.auth
    /\ trace.access = NoAccess

InCycle == pc[MainWorker] \notin {"idle", "done", "panicked"}

\* C23: a step of the watcher leaves the projects and every existing row as
\* they are and adds at most one row; the projects it read at the start of
\* the cycle stay what it works from; an added row belongs to the project
\* being visited and has the env that project had when the cycle read it.
C23_WatcherFrame ==
    [][Next =>
         /\ projects' = projects
         /\ Len(deployments') \in {Len(deployments), Len(deployments) + 1}
         /\ SubSeq(deployments', 1, Len(deployments)) = deployments
         /\ InCycle => projs' = projs
         /\ Len(deployments') = Len(deployments) + 1 =>
               /\ InCycle
               /\ deployments'[Len(deployments')].project = projs[MainWorker][pi[MainWorker]].id
               /\ deployments'[Len(deployments')].env = projs[MainWorker][pi[MainWorker]].env]_vars

\* C23 witness: a row was inserted for a project whose env the user changed
\* after the cycle had read it; the row has the env that was read.
C23_Witness ==
    /\ Len(deployments) >= 2
    /\ pc[MainWorker] = "done"
    /\ \E i \in 1..Len(deployments) :
          /\ projects[deployments[i].project].env = ChangedEnv
          /\ deployments[i].env # ChangedEnv
          /\ deployments[i].branch \in PRBranches
          /\ projs[MainWorker][deployments[i].project].env = deployments[i].env

====
